---- MODULE Spec2Model ----
(***************************************************************************)
(* State-machine model of the BESS digital twin (simulation_objects.py,   *)
(* simulation_runner.py, config.py).                                       *)
(*                                                                         *)
(* Numeric representation.  The program computes in binary floating point; *)
(* the model computes on fixed-point integer grids:                        *)
(*   soc      in units of 0.01 %      (100 %  = 10000)                     *)
(*   voltage  in units of 10 microvolt (3.6 V = 360000)                    *)
(*   site and group power ("_mw" fields) in kW (40.0 MW = 40000)           *)
(*   container, rack and pack power ("_w" fields) in W                     *)
(*   time in whole seconds                                                 *)
(* Every control point and threshold of config.py lies on these grids, and *)
(* the curve interpolation is exact on them.  Quotients that the program   *)
(* leaves fractional are truncated toward zero.                            *)
(*                                                                         *)
(* The thermal chain (pack heat, coolant temperatures, Chiller) is written *)
(* once per step and read by no electrical or control path; it is not part *)
(* of the modelled state.                                                  *)
(***************************************************************************)
EXTENDS Integers, Sequences, FiniteSets, TLC

VARIABLES cfg, site, pc, steps_run, yielded, pack, group, op

vars == <<cfg, site, pc, steps_run, yielded, pack, group, op>>

(***************************************************************************)
(* Bounds of the model                                                     *)
(***************************************************************************)
\* cells per pack (the program's default is 44)
NumCells == 2
\* packs per rack and racks per container (the program's default is 9 each)
PacksPerRack == 1
RacksPerContainer == 1
\* pack-level specification: number of successive update_state calls
MaxPackUpdates == 2
\* group-level specification: number of successive update_state calls
MaxGroupUpdates == 2
\* runner specification: cap on steps of a run that has no step budget
MaxRunSteps == 36
MaxMainSteps == 12
\* how far beyond [0, 100] % the interpolator inputs reach, in 0.01 %
SocOvershoot == 50

(***************************************************************************)
(* config.py                                                               *)
(***************************************************************************)
SITE_TARGET_POWER_MW == 40000
RAMP_DURATION_SECONDS == 30
CHARGE_TAPER_DURATION_SECONDS == 60
DISCHARGE_TAPER_DURATION_SECONDS == 60
CHARGE_TAPER_SOC_THRESHOLD == 9800
DISCHARGE_TAPER_SOC_THRESHOLD == 800
HEAT_SOAK_DURATION_HOURS == 2
L2_CALIBRATE_LOW_VOLTAGE == 300000
L2_CUTOFF_LOW_VOLTAGE == 280000
L2_CALIBRATE_HIGH_VOLTAGE == 345000
L2_CUTOFF_HIGH_VOLTAGE == 360000
MIN_SAFE_SOC == 520
MAX_SAFE_SOC == 10000
CELL_CAPACITY_AH == 300
BALANCING_TOP_SOC_START == 9400
BALANCING_BOTTOM_SOC_END == 600
\* 0.6 A, in mA
BALANCING_BLEED_CURRENT_A == 600
\* calibration targets of BatteryPack.update_state (6.0 % and 99.2 %)
CALIBRATE_LOW_SOC == 600
CALIBRATE_HIGH_SOC == 9920
\* the ends of the soc scale (0.0 and 100.0)
SOC_MIN == 0
SOC_MAX == 10000

SOC_VOLTAGE_CURVE ==
    << <<0, 250000>>, <<500, 280000>>, <<1000, 310000>>, <<2000, 320000>>,
       <<3000, 325000>>, <<4000, 330000>>, <<5000, 332000>>, <<6000, 335000>>,
       <<7000, 340000>>, <<8000, 345000>>, <<9000, 355000>>, <<9500, 360000>>,
       <<10000, 365000>> >>

(***************************************************************************)
(* Arithmetic helpers                                                      *)
(***************************************************************************)
Min2(a, b) == IF a <= b THEN a ELSE b
Max2(a, b) == IF a >= b THEN a ELSE b
Abs(a) == IF a >= 0 THEN a ELSE -a
Sign(a) == IF a > 0 THEN 1 ELSE IF a < 0 THEN -1 ELSE 0

\* a / b truncated toward zero (b > 0)
Div(a, b) == IF a >= 0 THEN a \div b ELSE -((-a) \div b)

\* np.clip(x, lo, hi) / max(lo, min(hi, x))
Clip(x, lo, hi) == Max2(lo, Min2(hi, x))

RECURSIVE SeqSum(_)
SeqSum(s) == IF s = <<>> THEN 0 ELSE Head(s) + SeqSum(Tail(s))

\* ndarray.mean() / sum(...) / len(...) of a non-empty sequence
Mean(s) == Div(SeqSum(s), Len(s))

(***************************************************************************)
(* SOC / voltage interpolator                                              *)
(***************************************************************************)
\* the for loop of interpolate_voltage_from_soc, from index i on
RECURSIVE InterpScan(_, _, _)
InterpScan(points, x, i) ==
    IF i > Len(points) THEN points[Len(points)][2]
    ELSE LET x0 == points[i - 1][1]
             y0 == points[i - 1][2]
             x1 == points[i][1]
             y1 == points[i][2]
         IN IF x <= x1
            THEN IF x1 # x0 THEN y0 + Div((x - x0) * (y1 - y0), x1 - x0) ELSE y0
            ELSE InterpScan(points, x, i + 1)

\* variant: the clamp of line 32 left out
interpolate_voltage_from_soc_NoClamp(points, soc_percent) ==
    InterpScan(points, soc_percent, 2)

interpolate_voltage_from_soc(points, soc_percent) ==
    InterpScan(points, Clip(soc_percent, SOC_MIN, SOC_MAX), 2)

\* np.interp(x, xp, fp) for xp[1] <= x <= xp[n]: the segment j with
\* xp[j] <= x < xp[j+1]; x = xp[n] returns fp[n]
NpInterp(x, points) ==
    LET n == Len(points)
    IN IF x >= points[n][1] THEN points[n][2]
       ELSE IF x <= points[1][1] THEN points[1][2]
       ELSE LET j == CHOOSE k \in 1..(n - 1) :
                          points[k][1] <= x /\ x < points[k + 1][1]
                x0 == points[j][1]
                y0 == points[j][2]
                x1 == points[j + 1][1]
                y1 == points[j + 1][2]
            IN y0 + Div((y1 - y0) * (x - x0), x1 - x0)

interpolate_voltage_from_soc_vectorized(soc_percent) ==
    [i \in 1..Len(soc_percent) |->
        NpInterp(Clip(soc_percent[i], SOC_MIN, SOC_MAX), SOC_VOLTAGE_CURVE)]

(***************************************************************************)
(* BatteryPack                                                             *)
(***************************************************************************)
\* bess_initial_state configurations: [type |-> "uniform", mean |-> m],
\* [type |-> "normal"], or [type |-> "legacy"] when the key is absent or empty
\* (the INITIAL_SOC_* globals of config.py then apply)
INITIAL_SOC_MIN_PERCENT == MIN_SAFE_SOC
INITIAL_SOC_MAX_PERCENT == 1200
\* INITIAL_SOC_FRACTION_AT_FLOOR = 0.4, in tenths
INITIAL_SOC_FRACTION_AT_FLOOR == 4

\* int(round(n * floor_fraction))
FloorCount(n) == (n * INITIAL_SOC_FRACTION_AT_FLOOR + 5) \div 10

\* variant: the uniform and normal branches without np.clip
InitialCellSoc_NoClip(initial_state, samples, perm) ==
    LET n == Len(samples)
    IN IF initial_state.type = "uniform"
       THEN [i \in 1..n |-> initial_state.mean]
       ELSE [i \in 1..n |-> samples[i]]

\* the cell_soc array built by BatteryPack.__post_init__ from the n random
\* draws `samples` (np.random.normal) and the shuffle `perm` of the legacy branch
InitialCellSoc(initial_state, samples, perm) ==
    LET n == Len(samples)
    IN IF initial_state.type = "uniform"
       THEN [i \in 1..n |-> Clip(initial_state.mean, SOC_MIN, SOC_MAX)]
       ELSE IF initial_state.type = "normal"
       THEN [i \in 1..n |-> Clip(samples[i], MIN_SAFE_SOC, SOC_MAX)]
       ELSE LET floor_count == FloorCount(n)
                unshuffled == [i \in 1..n |->
                    IF i <= floor_count THEN MIN_SAFE_SOC
                    ELSE Clip(samples[i - floor_count],
                              INITIAL_SOC_MIN_PERCENT, INITIAL_SOC_MAX_PERCENT)]
            IN [i \in 1..n |-> unshuffled[perm[i]]]

BatteryPack_post_init(initial_state, samples, perm) ==
    LET soc == InitialCellSoc(initial_state, samples, perm)
    IN [cell_soc     |-> soc,
        cell_voltage |-> interpolate_voltage_from_soc_vectorized(soc),
        average_soc  |-> Mean(soc)]

\* delta_soc of update_state: current_per_cell = power_w / sum(V),
\* delta_ah = current * dt / 3600, delta_soc = delta_ah / CELL_CAPACITY_AH * 100.
\* With sum(V) in mV and soc in 0.01 %:
\*   delta = power_w * dt * 10^7 / (sumV_mV * 3600 * CELL_CAPACITY_AH)
\*         = power_w * dt * DeltaNum / (DeltaDen * sumV_mV)
DeltaNum == 250
DeltaDen == (9 * CELL_CAPACITY_AH) \div 100
\* |delta| >= the whole soc scale once |power_w| * dt >= FullScale * D
FullScale == SOC_MAX \div DeltaNum

\* variant: the current counted with the opposite sign
DeltaSoc_Reversed(power_w, sum_voltage, time_step_s) ==
    LET D == DeltaDen * (sum_voltage \div 100)
        a == Abs(power_w)
        mag == IF a > (FullScale * D) \div time_step_s
               THEN SOC_MAX
               ELSE LET N == a * time_step_s
                    IN (N \div D) * DeltaNum + ((N % D) * DeltaNum) \div D
    IN -Sign(power_w) * mag

DeltaSoc(power_w, sum_voltage, time_step_s) ==
    LET D == DeltaDen * (sum_voltage \div 100)
        a == Abs(power_w)
        mag == IF a > (FullScale * D) \div time_step_s
               THEN SOC_MAX
               ELSE LET N == a * time_step_s
                    IN (N \div D) * DeltaNum + ((N % D) * DeltaNum) \div D
    IN Sign(power_w) * mag

\* soc += delta_soc; np.clip(soc, 0.0, 100.0, out=soc)
IntegrateSoc(soc, delta_soc) ==
    [i \in 1..Len(soc) |-> Clip(soc[i] + delta_soc, SOC_MIN, SOC_MAX)]

\* bleed_delta_soc: bleed_current * dt / 3600 / CELL_CAPACITY_AH * 100
\* (current in mA, soc in 0.01 %: divisor 3600 * CELL_CAPACITY_AH / 10)
BleedDeltaSoc(time_step_s) ==
    (BALANCING_BLEED_CURRENT_A * time_step_s) \div (360 * CELL_CAPACITY_AH)

\* variant: the balancing windows ignored
BalancingApplies_Always(soc) == TRUE

\* avg_soc_now >= BALANCING_TOP_SOC_START or <= BALANCING_BOTTOM_SOC_END,
\* compared on the exact mean sum/n
BalancingApplies(soc) ==
    \/ SeqSum(soc) >= BALANCING_TOP_SOC_START * Len(soc)
    \/ SeqSum(soc) <= BALANCING_BOTTOM_SOC_END * Len(soc)

\* mask_bleed = soc > avg_soc_now
MaskBleed(soc) == {i \in 1..Len(soc) : soc[i] * Len(soc) > SeqSum(soc)}

\* the balancing block: the soc array after the bleed
BalanceSoc(soc, time_step_s) ==
    IF BalancingApplies(soc) /\ BALANCING_BLEED_CURRENT_A > 0
    THEN [i \in 1..Len(soc) |->
            IF i \in MaskBleed(soc)
            THEN Clip(Max2(0, soc[i] - BleedDeltaSoc(time_step_s)), SOC_MIN, SOC_MAX)
            ELSE soc[i]]
    ELSE soc

\* the voltage array left by the balancing block: recomputed only when a cell bled
BalanceVoltage(soc, v, time_step_s) ==
    IF BalancingApplies(soc) /\ BALANCING_BLEED_CURRENT_A > 0 /\ MaskBleed(soc) # {}
    THEN interpolate_voltage_from_soc_vectorized(BalanceSoc(soc, time_step_s))
    ELSE v

\* L2 calibration of one cell, masks taken from its voltage v
\* variant: the floor at or under L2_CUTOFF_LOW_VOLTAGE left out
CalibrateCell_NoLowCut(s, v) ==
    LET s2 == IF v > L2_CUTOFF_LOW_VOLTAGE /\ v <= L2_CALIBRATE_LOW_VOLTAGE
              THEN Max2(s, CALIBRATE_LOW_SOC) ELSE s
        s3 == IF v >= L2_CUTOFF_HIGH_VOLTAGE THEN Min2(s2, SOC_MAX) ELSE s2
        s4 == IF v < L2_CUTOFF_HIGH_VOLTAGE /\ v >= L2_CALIBRATE_HIGH_VOLTAGE
              THEN Min2(s3, CALIBRATE_HIGH_SOC) ELSE s3
    IN Clip(s4, SOC_MIN, SOC_MAX)

CalibrateCell(s, v) ==
    LET s1 == IF v <= L2_CUTOFF_LOW_VOLTAGE THEN Max2(s, MIN_SAFE_SOC) ELSE s
        s2 == IF v > L2_CUTOFF_LOW_VOLTAGE /\ v <= L2_CALIBRATE_LOW_VOLTAGE
              THEN Max2(s1, CALIBRATE_LOW_SOC) ELSE s1
        s3 == IF v >= L2_CUTOFF_HIGH_VOLTAGE THEN Min2(s2, SOC_MAX) ELSE s2
        s4 == IF v < L2_CUTOFF_HIGH_VOLTAGE /\ v >= L2_CALIBRATE_HIGH_VOLTAGE
              THEN Min2(s3, CALIBRATE_HIGH_SOC) ELSE s3
    IN Clip(s4, SOC_MIN, SOC_MAX)

CalibrateSoc(soc, v) == [i \in 1..Len(soc) |-> CalibrateCell(soc[i], v[i])]

BatteryPack_update_state(p, power_w, time_step_s) ==
    LET v0 == interpolate_voltage_from_soc_vectorized(p.cell_soc)
        sum_voltage == SeqSum(v0)
        delta_soc == DeltaSoc(power_w, sum_voltage, time_step_s)
        soc1 == IntegrateSoc(p.cell_soc, delta_soc)
        v1 == interpolate_voltage_from_soc_vectorized(soc1)
        soc2 == BalanceSoc(soc1, time_step_s)
        v2 == BalanceVoltage(soc1, v1, time_step_s)
        soc3 == CalibrateSoc(soc2, v2)
    IN [cell_soc     |-> soc3,
        cell_voltage |-> v2,
        average_soc  |-> Mean(soc3)]

(***************************************************************************)
(* BatteryRack, BatteryContainer                                           *)
(***************************************************************************)
BatteryRack_post_init(packs) ==
    [packs       |-> packs,
     average_soc |-> Mean([i \in 1..Len(packs) |-> packs[i].average_soc])]

BatteryRack_update_state(r, power_w, time_step_s) ==
    IF Len(r.packs) = 0 THEN r
    ELSE LET power_per_pack == Div(power_w, Len(r.packs))
             packs == [i \in 1..Len(r.packs) |->
                         BatteryPack_update_state(r.packs[i], power_per_pack, time_step_s)]
         IN [packs       |-> packs,
             average_soc |-> Mean([i \in 1..Len(packs) |-> packs[i].average_soc])]

BatteryContainer_post_init(racks) ==
    [racks |-> racks,
     soc   |-> Mean([i \in 1..Len(racks) |-> racks[i].average_soc])]

\* every stored cell voltage of the container
ContainerCellVoltages(c) ==
    UNION { UNION { { c.racks[r].packs[k].cell_voltage[i] :
                        i \in 1..Len(c.racks[r].packs[k].cell_voltage) } :
                    k \in 1..Len(c.racks[r].packs) } :
            r \in 1..Len(c.racks) }

SetMin(S) == CHOOSE x \in S : \A y \in S : x <= y
SetMax(S) == CHOOSE x \in S : \A y \in S : x >= y

\* get_cell_voltage_extrema()[0]; 0.0 when the container holds no cell
get_min_cell_voltage(c) ==
    IF ContainerCellVoltages(c) = {} THEN 0 ELSE SetMin(ContainerCellVoltages(c))

\* get_cell_voltage_extrema()[1]
get_max_cell_voltage(c) ==
    IF ContainerCellVoltages(c) = {} THEN 0 ELSE SetMax(ContainerCellVoltages(c))

BatteryContainer_update_state(c, power_w, time_step_s) ==
    IF Len(c.racks) = 0 THEN c
    ELSE LET power_per_rack == Div(power_w, Len(c.racks))
             racks == [i \in 1..Len(c.racks) |->
                         BatteryRack_update_state(c.racks[i], power_per_rack, time_step_s)]
         IN [racks |-> racks,
             soc   |-> Mean([i \in 1..Len(racks) |-> racks[i].average_soc])]

\* a container as BatteryContainer(id) builds it: RacksPerContainer racks of
\* PacksPerRack packs of NumCells cells, every pack from its own random draws
\* (here the same draws for every pack of the container)
NewContainer(initial_state, samples, perm) ==
    BatteryContainer_post_init(
        [r \in 1..RacksPerContainer |->
            BatteryRack_post_init(
                [k \in 1..PacksPerRack |->
                    BatteryPack_post_init(initial_state, samples, perm)])])

(***************************************************************************)
(* InverterGroup                                                           *)
(***************************************************************************)
NewGroup(containers) ==
    [containers              |-> containers,
     last_commanded_power_mw |-> 0,
     last_applied_power_mw   |-> 0]

AnyContainer(g, P(_)) == \E i \in 1..Len(g.containers) : P(g.containers[i])

HighVoltageFault(c) == get_max_cell_voltage(c) >= L2_CUTOFF_HIGH_VOLTAGE
LowVoltageFault(c) == get_min_cell_voltage(c) <= L2_CUTOFF_LOW_VOLTAGE
HighSocFault(c) == c.soc >= MAX_SAFE_SOC
LowSocFault(c) == c.soc <= MIN_SAFE_SOC

\* variant: positive power taken as discharge, negative as charge
WeakLinkTrips_SwappedSigns(g, power_mw, by_voltage) ==
    LET charging == power_mw < 0
        discharging == power_mw > 0
    IN IF by_voltage
       THEN \/ charging /\ AnyContainer(g, HighVoltageFault)
            \/ discharging /\ AnyContainer(g, LowVoltageFault)
       ELSE \/ charging /\ AnyContainer(g, HighSocFault)
            \/ discharging /\ AnyContainer(g, LowSocFault)

\* the weakest-link test of update_state: TRUE when power_mw is forced to 0.0
WeakLinkTrips(g, power_mw, by_voltage) ==
    LET charging == power_mw > 0
        discharging == power_mw < 0
    IN IF by_voltage
       THEN \/ charging /\ AnyContainer(g, HighVoltageFault)
            \/ discharging /\ AnyContainer(g, LowVoltageFault)
       ELSE \/ charging /\ AnyContainer(g, HighSocFault)
            \/ discharging /\ AnyContainer(g, LowSocFault)

\* variant: the interlock left out
InterlockedPower_NoInterlock(g, power_mw, by_voltage) == power_mw

\* variant: a tripped interlock halves the power instead of zeroing it
InterlockedPower_Derate(g, power_mw, by_voltage) ==
    IF WeakLinkTrips(g, power_mw, by_voltage) THEN Div(power_mw, 2) ELSE power_mw

\* power_mw after the interlock
InterlockedPower(g, power_mw, by_voltage) ==
    IF WeakLinkTrips(g, power_mw, by_voltage) THEN 0 ELSE power_mw

\* power_w = power_mw * 1e6 (kW to W here); power_w / len(self.containers)
PowerPerContainerW(g, applied_mw) == Div(applied_mw * 1000, Len(g.containers))

InverterGroup_update_state(g, power_mw, time_step_s, by_voltage) ==
    IF Len(g.containers) = 0 THEN g
    ELSE LET applied == InterlockedPower(g, power_mw, by_voltage)
             power_per_container_w == PowerPerContainerW(g, applied)
         IN [containers |->
                [i \in 1..Len(g.containers) |->
                    BatteryContainer_update_state(g.containers[i],
                                                  power_per_container_w, time_step_s)],
             last_commanded_power_mw |-> power_mw,
             last_applied_power_mw   |-> applied]

(***************************************************************************)
(* BESS_Site                                                               *)
(***************************************************************************)
\* BESS_Site(inverter_groups, test_state) after __post_init__; test_sequence is
\* SIMULATION_CONFIG['test_sequence'], a list of step descriptors
BESS_Site_post_init(inverter_groups, test_state, test_sequence) ==
    LET enabled == Len(test_sequence) > 0
    IN [inverter_groups              |-> inverter_groups,
        current_time_s               |-> 0,
        test_state                   |-> IF enabled THEN "SEQUENCE" ELSE test_state,
        state_time_s                 |-> 0,
        current_site_power_target_mw |-> 0,
        sequence_enabled             |-> enabled,
        sequence                     |-> IF enabled THEN test_sequence ELSE <<>>,
        seq_index                    |-> 0,
        seq_elapsed_s                |-> 0]

SiteContainers(s) ==
    UNION { { s.inverter_groups[g].containers[c] :
                c \in 1..Len(s.inverter_groups[g].containers) } :
            g \in 1..Len(s.inverter_groups) }

any_container_soc_at_or_above(s, threshold_percent) ==
    \E c \in SiteContainers(s) : c.soc >= threshold_percent

\* variant: the discharge threshold has to be met by every container
any_container_soc_at_or_below_All(s, threshold_percent) ==
    \A c \in SiteContainers(s) : c.soc <= threshold_percent

any_container_soc_at_or_below(s, threshold_percent) ==
    \E c \in SiteContainers(s) : c.soc <= threshold_percent

\* frac * full with frac = min(1.0, t / max(1, dur))
RampUp(t, dur, full) == Div(full * Min2(t, Max2(1, dur)), Max2(1, dur))

\* variant: the taper scaled by frac instead of (1.0 - frac)
RampDown_Rising(t, dur, start) ==
    Div(start * Min2(t, Max2(1, dur)), Max2(1, dur))

\* (1.0 - frac) * start
RampDown(t, dur, start) ==
    Div(start * (Max2(1, dur) - Min2(t, Max2(1, dur))), Max2(1, dur))

\* int(HEAT_SOAK_DURATION_HOURS * 3600)
HeatSoakSeconds == HEAT_SOAK_DURATION_HOURS * 3600

\* the if / elif chain of update_test_state (built-in cycle), before the
\* closing state_time_s += time_step_s; P is config.SITE_TARGET_POWER_MW, and
\* the ramp duration is read from the configuration at each call
BuiltinTransition(s, P) ==
    LET st == s.test_state
        t == s.state_time_s
        ramp_dur == cfg.RAMP_DURATION_SECONDS
        enter(name, target) == [s EXCEPT !.test_state = name, !.state_time_s = 0,
                                         !.current_site_power_target_mw = target]
        hold(target) == [s EXCEPT !.current_site_power_target_mw = target]
    IN CASE st = "IDLE" -> enter("INIT", 0)
         [] st = "INIT" -> enter("RAMP_CHARGE", 0)
         [] st = "RAMP_CHARGE" ->
                IF t >= ramp_dur
                THEN enter("CONST_CHARGE", P)
                ELSE hold(RampUp(t, ramp_dur, P))
         [] st = "CONST_CHARGE" ->
                IF any_container_soc_at_or_above(s, CHARGE_TAPER_SOC_THRESHOLD)
                THEN enter("TAPER_TO_REST", P)
                ELSE hold(P)
         [] st = "TAPER_TO_REST" ->
                IF t >= CHARGE_TAPER_DURATION_SECONDS
                THEN enter("HEAT_SOAK", 0)
                ELSE hold(RampDown(t, CHARGE_TAPER_DURATION_SECONDS, P))
         [] st = "HEAT_SOAK" ->
                IF t >= HeatSoakSeconds
                THEN enter("RAMP_DISCHARGE", 0)
                ELSE hold(0)
         [] st = "RAMP_DISCHARGE" ->
                IF t >= ramp_dur
                THEN enter("CONST_DISCHARGE", -P)
                ELSE hold(-RampUp(t, ramp_dur, P))
         [] st = "CONST_DISCHARGE" ->
                IF any_container_soc_at_or_below(s, DISCHARGE_TAPER_SOC_THRESHOLD)
                THEN enter("TAPER_TO_FINISH", -P)
                ELSE hold(-P)
         [] st = "TAPER_TO_FINISH" ->
                IF t >= DISCHARGE_TAPER_DURATION_SECONDS
                THEN enter("DONE", 0)
                ELSE hold(RampDown(t, DISCHARGE_TAPER_DURATION_SECONDS, -P))
         [] st = "DONE" -> hold(0)
         [] OTHER -> s

\* A step descriptor is a record holding the keys of the mapping. A value of
\* the wrong type (a string where a number is read, a scalar where a mapping is
\* read) is not stored under its key: the key is listed in the descriptor's
\* `malformed` set instead, and "step" in that set says that the descriptor
\* itself is not a mapping.
Malformed(step) == IF "malformed" \in DOMAIN step THEN step.malformed ELSE {}

\* 'key' in step
HasKey(step, key) == key \in DOMAIN step \/ key \in Malformed(step)

\* the key the duration is read from (lines 526-531), "" when none is present
DurationKey(step) ==
    IF HasKey(step, "duration_seconds") THEN "duration_seconds"
    ELSE IF HasKey(step, "duration_minutes") THEN "duration_minutes"
    ELSE IF HasKey(step, "duration_hours") THEN "duration_hours"
    ELSE ""

\* str(cmd.get('command_type', 'idle')).lower() == 'idle'
CommandIsIdle(step) ==
    \/ "power_command" \notin DOMAIN step
    \/ "command_type" \notin DOMAIN step.power_command
    \/ step.power_command.command_type = "idle"

\* the statements of lines 523-542 that raise on a malformed descriptor:
\* `in` / .get on a non-mapping step, int() / float() on a non-numeric
\* duration, .get on a non-mapping power_command, float() on a non-numeric
\* real_power_mw; none of them is inside a try block
StepRaises(step) ==
    \/ "step" \in Malformed(step)
    \/ DurationKey(step) \in Malformed(step)
    \/ "power_command" \in Malformed(step)
    \/ ~CommandIsIdle(step) /\ "real_power_mw" \in Malformed(step)

\* dur_s of a step descriptor: the first present of duration_seconds,
\* duration_minutes, duration_hours; max(0, .)
StepDuration(step) ==
    Max2(0, IF "duration_seconds" \in DOMAIN step THEN step.duration_seconds
            ELSE IF "duration_minutes" \in DOMAIN step THEN step.duration_minutes * 60
            ELSE IF "duration_hours" \in DOMAIN step THEN step.duration_hours * 3600
            ELSE 0)

\* variant: the external sign kept, real_power_mw not negated
StepBaseTarget_NotNegated(step) ==
    IF CommandIsIdle(step) THEN 0
    ELSE IF "real_power_mw" \in DOMAIN step.power_command
         THEN step.power_command.real_power_mw
         ELSE 0

\* target_mw of the power command, before the taper
StepBaseTarget(step) ==
    IF "power_command" \notin DOMAIN step THEN 0
    ELSE IF "command_type" \notin DOMAIN step.power_command THEN 0
    ELSE IF step.power_command.command_type = "idle" THEN 0
    ELSE IF "real_power_mw" \in DOMAIN step.power_command
         THEN -step.power_command.real_power_mw
         ELSE 0

\* target_mw after the linear taper at step-elapsed time `elapsed`
StepTarget(step, elapsed) ==
    LET dur_s == StepDuration(step)
        target_mw == StepBaseTarget(step)
        bad == {"taper_settings", "end_power_mw"} \cap Malformed(step)
        truthy == \/ bad # {}
                  \/ "taper_settings" \in DOMAIN step /\ DOMAIN step.taper_settings # {}
    IN IF truthy /\ dur_s > 0 /\ bad = {}
       THEN LET end_power_mw == IF "end_power_mw" \in DOMAIN step.taper_settings
                                THEN step.taper_settings.end_power_mw
                                ELSE target_mw
                d == Max2(1, dur_s)
                e == Clip(elapsed, 0, d)
            IN Div((d - e) * target_mw + e * end_power_mw, d)
       ELSE target_mw

StepName(step) == IF "step_name" \in DOMAIN step THEN step.step_name ELSE "SEQUENCE"

\* _update_by_sequence raises: the cursor is on a descriptor one of lines
\* 523-542 fails on; nothing has been assigned at that point
update_by_sequence_raises(s) ==
    /\ s.seq_index < Len(s.sequence)
    /\ StepRaises(s.sequence[s.seq_index + 1])

\* variant: an exhausted list reports DONE but keeps the last commanded target
update_by_sequence_KeepsTarget(s, time_step_s) ==
    IF s.seq_index >= Len(s.sequence)
    THEN [s EXCEPT !.test_state = "DONE"]
    ELSE LET step == s.sequence[s.seq_index + 1]
             elapsed == s.seq_elapsed_s + time_step_s
             advance == elapsed >= StepDuration(step)
         IN [s EXCEPT !.current_site_power_target_mw = StepTarget(step, s.seq_elapsed_s),
                      !.state_time_s = s.seq_elapsed_s,
                      !.test_state = StepName(step),
                      !.seq_index = IF advance THEN s.seq_index + 1 ELSE s.seq_index,
                      !.seq_elapsed_s = IF advance THEN 0 ELSE elapsed]

\* variant: the cursor advances only once the elapsed time exceeds the duration
update_by_sequence_StrictAdvance(s, time_step_s) ==
    IF s.seq_index >= Len(s.sequence)
    THEN [s EXCEPT !.test_state = "DONE", !.current_site_power_target_mw = 0]
    ELSE LET step == s.sequence[s.seq_index + 1]
             elapsed == s.seq_elapsed_s + time_step_s
             advance == elapsed > StepDuration(step)
         IN [s EXCEPT !.current_site_power_target_mw = StepTarget(step, s.seq_elapsed_s),
                      !.state_time_s = s.seq_elapsed_s,
                      !.test_state = StepName(step),
                      !.seq_index = IF advance THEN s.seq_index + 1 ELSE s.seq_index,
                      !.seq_elapsed_s = IF advance THEN 0 ELSE elapsed]

\* _update_by_sequence; seq_index counts from 0 as in the program
update_by_sequence(s, time_step_s) ==
    IF s.seq_index >= Len(s.sequence)
    THEN [s EXCEPT !.test_state = "DONE", !.current_site_power_target_mw = 0]
    ELSE LET step == s.sequence[s.seq_index + 1]
             elapsed == s.seq_elapsed_s + time_step_s
             advance == elapsed >= StepDuration(step)
         IN [s EXCEPT !.current_site_power_target_mw = StepTarget(step, s.seq_elapsed_s),
                      !.state_time_s = s.seq_elapsed_s,
                      !.test_state = StepName(step),
                      !.seq_index = IF advance THEN s.seq_index + 1 ELSE s.seq_index,
                      !.seq_elapsed_s = IF advance THEN 0 ELSE elapsed]

\* variant: the chain written with if instead of elif, so that a state entered
\* in this call is evaluated again in the same call
update_test_state_FallThrough(s, time_step_s, P) ==
    IF s.sequence_enabled
    THEN update_by_sequence(s, time_step_s)
    ELSE LET u == BuiltinTransition(BuiltinTransition(s, P), P)
         IN [u EXCEPT !.state_time_s = u.state_time_s + time_step_s]

\* variant: the return of line 448 left out, so that the built-in chain also
\* runs in sequence mode
update_test_state_NoReturn(s, time_step_s, P) ==
    LET q == IF s.sequence_enabled THEN update_by_sequence(s, time_step_s) ELSE s
        u == BuiltinTransition(q, P)
    IN [u EXCEPT !.state_time_s = u.state_time_s + time_step_s]

\* variant: a built-in cycle that starts over once DONE has been reached
update_test_state_Restarts(s, time_step_s, P) ==
    IF s.sequence_enabled
    THEN update_by_sequence(s, time_step_s)
    ELSE LET u == IF s.test_state = "DONE"
                  THEN [s EXCEPT !.test_state = "IDLE",
                                 !.current_site_power_target_mw = 0]
                  ELSE BuiltinTransition(s, P)
         IN [u EXCEPT !.state_time_s = u.state_time_s + time_step_s]

update_test_state(s, time_step_s, P) ==
    IF s.sequence_enabled
    THEN update_by_sequence(s, time_step_s)
    ELSE LET u == BuiltinTransition(s, P)
         IN [u EXCEPT !.state_time_s = u.state_time_s + time_step_s]

\* run_time_step raises: update_test_state is its first statement
run_time_step_raises(s) == s.sequence_enabled /\ update_by_sequence_raises(s)

\* variant: every group is handed the whole site target
PowerPerGroup_Whole(target_power_mw, n_groups) == target_power_mw

\* power_per_group_mw = target_power_mw / len(self.inverter_groups)
PowerPerGroup(target_power_mw, n_groups) == Div(target_power_mw, n_groups)

\* variant: the share of the groups whose interlock trips is handed to the others
run_time_step_Redistribute(s, time_step_s, c) ==
    LET u == update_test_state(s, time_step_s, c.SITE_TARGET_POWER_MW)
        target_power_mw == u.current_site_power_target_mw
        n == Len(u.inverter_groups)
        open == { g \in 1..n :
                    ~WeakLinkTrips(u.inverter_groups[g], PowerPerGroup(target_power_mw, n),
                                   c.WEAK_LINK_CUTOFF_BY_VOLTAGE) }
        share == Div(target_power_mw, Max2(1, Cardinality(open)))
    IN IF n = 0
       THEN [u EXCEPT !.current_time_s = u.current_time_s + time_step_s]
       ELSE [u EXCEPT
               !.inverter_groups =
                   [g \in 1..n |->
                       InverterGroup_update_state(u.inverter_groups[g], share,
                           time_step_s, c.WEAK_LINK_CUTOFF_BY_VOLTAGE)],
               !.current_time_s = u.current_time_s + time_step_s]

run_time_step(s, time_step_s, c) ==
    LET u == update_test_state(s, time_step_s, c.SITE_TARGET_POWER_MW)
        target_power_mw == u.current_site_power_target_mw
        n == Len(u.inverter_groups)
    IN IF n = 0
       THEN [u EXCEPT !.current_time_s = u.current_time_s + time_step_s]
       ELSE [u EXCEPT
               !.inverter_groups =
                   [g \in 1..n |->
                       InverterGroup_update_state(u.inverter_groups[g],
                           PowerPerGroup(target_power_mw, n), time_step_s,
                           c.WEAK_LINK_CUTOFF_BY_VOLTAGE)],
               !.current_time_s = u.current_time_s + time_step_s]

(***************************************************************************)
(* Inputs the specifications draw from                                     *)
(***************************************************************************)
\* n random draws base, base + step, ...
Draws(base, step) == [i \in 1..NumCells |-> base + (i - 1) * step]

IdentityPerm == [i \in 1..NumCells |-> i]

Uniform(mean) == [type |-> "uniform", mean |-> mean]
Normal == [type |-> "normal", mean |-> 800]
Legacy == [type |-> "legacy", mean |-> 0]

\* the record of the most recent call, kept for the properties
OpRecord(name, pre, power, dt, n) ==
    [name |-> name, pre |-> pre, power |-> power, dt |-> dt, n |-> n]

DefaultConfig ==
    [SITE_TARGET_POWER_MW        |-> SITE_TARGET_POWER_MW,
     RAMP_DURATION_SECONDS       |-> RAMP_DURATION_SECONDS,
     WEAK_LINK_CUTOFF_BY_VOLTAGE |-> TRUE,
     test_sequence               |-> <<>>,
     time_step_s                 |-> 1,
     max_steps                   |-> {}]

(***************************************************************************)
(* SpecPack: one BatteryPack, constructed and then updated with arbitrary  *)
(* power and step duration                                                 *)
(***************************************************************************)
PackInitialStates == {Uniform(0), Uniform(450), Uniform(5000), Uniform(9600),
                      Uniform(10500), Normal, Legacy}
PackSamples == {-300, 560, 900, 5000, 9450, 9455, 12000}
PackPowers == {-4000000, -200, 0, 200, 4000000}
PackTimeSteps == {60, 3600}

InitPack ==
    /\ \E ist \in PackInitialStates, samples \in [1..NumCells -> PackSamples],
          perm \in Permutations(1..NumCells) :
          /\ pack = BatteryPack_post_init(ist, samples, perm)
          /\ op = OpRecord("init", pack, 0, 0, 0)
    /\ cfg = DefaultConfig
    /\ site = <<>>
    /\ group = <<>>
    /\ pc = "none"
    /\ steps_run = 0
    /\ yielded = <<>>

PackUpdate ==
    /\ op.n < MaxPackUpdates
    /\ \E power_w \in PackPowers, time_step_s \in PackTimeSteps :
          /\ pack' = BatteryPack_update_state(pack, power_w, time_step_s)
          /\ op' = OpRecord("update_state", pack, power_w, time_step_s, op.n + 1)
    /\ UNCHANGED <<cfg, site, group, pc, steps_run, yielded>>

NextPack == PackUpdate

SpecPack == InitPack /\ [][NextPack]_vars

(***************************************************************************)
(* SpecGroup: one InverterGroup, updated with arbitrary power              *)
(***************************************************************************)
ContainerKinds ==
    { NewContainer(Uniform(450), Draws(0, 0), IdentityPerm),
      NewContainer(Uniform(10000), Draws(0, 0), IdentityPerm),
      NewContainer(Normal, Draws(700, 300), IdentityPerm),
      NewContainer(Normal, Draws(9480, 30), IdentityPerm) }

GroupContainerLists ==
    {<<>>} \cup { <<a>> : a \in ContainerKinds }
           \cup { <<a, b>> : a \in ContainerKinds, b \in ContainerKinds }

GroupPowers == {-40000, -2, 0, 2, 40000}
GroupTimeSteps == {60, 3600}

InitGroup ==
    /\ \E containers \in GroupContainerLists, by_voltage \in BOOLEAN :
          /\ group = NewGroup(containers)
          /\ cfg = [DefaultConfig EXCEPT !.WEAK_LINK_CUTOFF_BY_VOLTAGE = by_voltage]
          /\ op = OpRecord("init", group, 0, 0, 0)
    /\ site = <<>>
    /\ pack = <<>>
    /\ pc = "none"
    /\ steps_run = 0
    /\ yielded = <<>>

GroupUpdate ==
    /\ op.n < MaxGroupUpdates
    /\ \E power_mw \in GroupPowers, time_step_s \in GroupTimeSteps :
          /\ group' = InverterGroup_update_state(group, power_mw, time_step_s,
                                                 cfg.WEAK_LINK_CUTOFF_BY_VOLTAGE)
          /\ op' = OpRecord("update_state", group, power_mw, time_step_s, op.n + 1)
    /\ UNCHANGED <<cfg, site, pack, pc, steps_run, yielded>>

NextGroup == GroupUpdate

SpecGroup == InitGroup /\ [][NextGroup]_vars

(***************************************************************************)
(* Spec: a site built by initialize_simulation and driven by the generator *)
(* execute_simulation_step(site, time_step_s, max_steps)                   *)
(***************************************************************************)
\* INVERTER_GROUP_CONTAINER_COUNTS
Layouts == {<<>>, <<1>>, <<2>>, <<1, 1>>, <<1, 0>>}

\* initial cell populations a seed can produce, one per container in turn
SiteContainerKinds ==
    << NewContainer(Normal, Draws(800, 150), IdentityPerm),
       NewContainer(Normal, Draws(9300, 250), IdentityPerm),
       NewContainer(Uniform(450), Draws(0, 0), IdentityPerm) >>

Seeds == 0..(Len(SiteContainerKinds) - 1)

\* number of containers in the groups before group g
RECURSIVE ContainersBefore(_, _)
ContainersBefore(layout, g) ==
    IF g <= 1 THEN 0 ELSE layout[g - 1] + ContainersBefore(layout, g - 1)

\* initialize_simulation(): the groups of the layout, container k of the site
\* holding the k-th population drawn under the seed
initialize_groups(layout, seed) ==
    [g \in 1..Len(layout) |->
        NewGroup([c \in 1..layout[g] |->
            SiteContainerKinds[
                ((seed + ContainersBefore(layout, g) + c - 1)
                    % Len(SiteContainerKinds)) + 1]])]

\* SIMULATION_CONFIG['test_sequence'] as config.py sets it
DefaultTestSequence ==
    << [step_name |-> "Charge", duration_minutes |-> 60,
        power_command |-> [command_type |-> "real", real_power_mw |-> 40000],
        taper_settings |-> [start_soc_percent |-> 9800, end_power_mw |-> 0]],
       [step_name |-> "Heat Soak", duration_hours |-> 2,
        power_command |-> [command_type |-> "idle"]],
       [step_name |-> "Discharge", duration_minutes |-> 60,
        power_command |-> [command_type |-> "real", real_power_mw |-> -40000]] >>

TestSequences ==
    { <<>>,
      << [step_name |-> "Charge", duration_seconds |-> 100,
          power_command |-> [command_type |-> "real", real_power_mw |-> -10],
          taper_settings |-> [end_power_mw |-> 0]],
         [step_name |-> "Rest", duration_minutes |-> 1,
          power_command |-> [command_type |-> "idle"]] >>,
      << [step_name |-> "DONE", duration_seconds |-> 50,
          power_command |-> [command_type |-> "real", real_power_mw |-> 10]],
         [duration_hours |-> 1,
          power_command |-> [command_type |-> "real", real_power_mw |-> 40000]] >>,
      \* a 100 s taper from +10 MW (external sign) to 0, a step whose first
      \* present duration is 0 s, an idle step with a taper
      << [step_name |-> "Discharge", duration_seconds |-> 100,
          power_command |-> [command_type |-> "real", real_power_mw |-> 10000],
          taper_settings |-> [end_power_mw |-> 0]],
         [step_name |-> "Pulse", duration_seconds |-> 0, duration_minutes |-> 1,
          power_command |-> [command_type |-> "real", real_power_mw |-> -2000]],
         [step_name |-> "Settle", duration_seconds |-> 150,
          power_command |-> [command_type |-> "idle"],
          taper_settings |-> [end_power_mw |-> 3000]] >>,
      DefaultTestSequence,
      \* valid JSON of the wrong shape: a non-numeric duration_minutes behind a
      \* numeric duration_seconds and a non-numeric end_power_mw, then a step
      \* that is not a mapping
      << [step_name |-> "Warmup", duration_seconds |-> 50,
          power_command |-> [command_type |-> "real", real_power_mw |-> -2000],
          malformed |-> {"duration_minutes", "end_power_mw"}],
         [malformed |-> {"step"}] >> }

SiteTargetPowers == {SITE_TARGET_POWER_MW, 400}
RunnerTimeSteps == {1, 50, 3600}
\* max_steps: {} is None, {n} is the supplied budget n
RunnerMaxSteps == {{}, {0}, {1}, {3}}
InitialTestStates == {"IDLE", "RAMP_DISCHARGE", "DONE"}
\* RAMP_DURATION_SECONDS: the default and an immediate ramp
RampDurations == {RAMP_DURATION_SECONDS, 0}

Init ==
    /\ \E layout \in Layouts, seed \in Seeds, test_state \in InitialTestStates,
          target \in SiteTargetPowers, by_voltage \in BOOLEAN,
          test_sequence \in TestSequences, time_step_s \in RunnerTimeSteps,
          max_steps \in RunnerMaxSteps :
       \E ramp \in IF test_sequence = <<>> THEN RampDurations
                                            ELSE {RAMP_DURATION_SECONDS} :
          /\ cfg = [SITE_TARGET_POWER_MW        |-> target,
                    RAMP_DURATION_SECONDS       |-> ramp,
                    WEAK_LINK_CUTOFF_BY_VOLTAGE |-> by_voltage,
                    test_sequence               |-> test_sequence,
                    time_step_s                 |-> time_step_s,
                    max_steps                   |-> max_steps]
          /\ site = BESS_Site_post_init(initialize_groups(layout, seed),
                                        test_state, test_sequence)
    /\ op = OpRecord("init", site, 0, 0, 0)
    /\ pc = "start"
    /\ steps_run = 0
    /\ yielded = <<>>
    /\ pack = <<>>
    /\ group = <<>>

\* lines 25-27: site.run_time_step(time_step_s); steps_run += 1; yield site
StepAndYield ==
    /\ ~run_time_step_raises(site)
    /\ site' = run_time_step(site, cfg.time_step_s, cfg)
    /\ steps_run' = steps_run + 1
    /\ yielded' = Append(yielded, site'.test_state)
    /\ op' = OpRecord("run_time_step", site, 0, cfg.time_step_s, op.n + 1)
    /\ pc' = "yielded"
    /\ UNCHANGED <<cfg, pack, group>>

\* variant: the DONE test of line 29 left out
RunnerBreaks_NoDoneCheck ==
    \E m \in cfg.max_steps : steps_run >= m

\* the break conditions of lines 29-32, evaluated when the generator resumes
RunnerBreaks ==
    \/ site.test_state = "DONE"
    \/ \E m \in cfg.max_steps : steps_run >= m

\* first next(): the loop body up to the first yield
RunnerStart ==
    /\ pc = "start"
    /\ StepAndYield

\* a later next(): no break, the loop body runs again
RunnerContinue ==
    /\ pc = "yielded"
    /\ ~RunnerBreaks
    /\ steps_run < MaxRunSteps
    /\ StepAndYield

\* a later next(): break, the generator is exhausted
RunnerStop ==
    /\ pc = "yielded"
    /\ RunnerBreaks
    /\ pc' = "stopped"
    /\ UNCHANGED <<cfg, site, steps_run, yielded, pack, group, op>>

\* a next() in which run_time_step raises: the exception leaves the generator
RunnerRaises ==
    /\ \/ pc = "start"
       \/ pc = "yielded" /\ ~RunnerBreaks /\ steps_run < MaxRunSteps
    /\ run_time_step_raises(site)
    /\ pc' = "raised"
    /\ UNCHANGED <<cfg, site, steps_run, yielded, pack, group, op>>

Next == RunnerStart \/ RunnerContinue \/ RunnerStop \/ RunnerRaises

Spec == Init /\ [][Next]_vars

(***************************************************************************)
(* SpecMain: the loop of run_simulation, which calls run_time_step a fixed *)
(* number of times and does not look at test_state                         *)
(***************************************************************************)
\* config.TIME_STEP_SECONDS
MainTimeSteps == {50, 3600}
\* the test sequences run_time_step completes without raising
MainTestSequences ==
    { ts \in TestSequences : \A i \in 1..Len(ts) : Malformed(ts[i]) = {} }

InitMain ==
    /\ \E layout \in Layouts, seed \in Seeds, test_state \in InitialTestStates,
          target \in SiteTargetPowers, by_voltage \in BOOLEAN,
          test_sequence \in MainTestSequences, time_step_s \in MainTimeSteps :
          /\ cfg = [SITE_TARGET_POWER_MW        |-> target,
                    RAMP_DURATION_SECONDS       |-> RAMP_DURATION_SECONDS,
                    WEAK_LINK_CUTOFF_BY_VOLTAGE |-> by_voltage,
                    test_sequence               |-> test_sequence,
                    time_step_s                 |-> time_step_s,
                    max_steps                   |-> {}]
          /\ site = BESS_Site_post_init(initialize_groups(layout, seed),
                                        test_state, test_sequence)
    /\ op = OpRecord("init", site, 0, 0, 0)
    /\ pc = "start"
    /\ steps_run = 0
    /\ yielded = <<>>
    /\ pack = <<>>
    /\ group = <<>>

\* one iteration of the for loop (lines 48-75); yielded holds the test_state
\* column of results_log
MainStep ==
    /\ steps_run < MaxMainSteps
    /\ site' = run_time_step(site, cfg.time_step_s, cfg)
    /\ steps_run' = steps_run + 1
    /\ yielded' = Append(yielded, site'.test_state)
    /\ op' = OpRecord("run_time_step", site, 0, cfg.time_step_s, op.n + 1)
    /\ UNCHANGED <<cfg, pc, pack, group>>

NextMain == MainStep

SpecMain == InitMain /\ [][NextMain]_vars

(***************************************************************************)
(* SpecInterp: the two interpolators applied to the same soc array         *)
(***************************************************************************)
\* every soc of the 0.01 % grid from below 0 % to above 100 %
InterpSocs == (SOC_MIN - SocOvershoot)..(SOC_MAX + SocOvershoot)
\* distance between neighbouring elements of the array
InterpStrides == {0, 1, 2500}

InitInterp ==
    /\ op = [name |-> "init", pre |-> <<>>, scalar |-> <<>>, batch |-> <<>>, n |-> 0]
    /\ cfg = DefaultConfig
    /\ site = <<>>
    /\ pack = <<>>
    /\ group = <<>>
    /\ pc = "none"
    /\ steps_run = 0
    /\ yielded = <<>>

\* the scalar form applied to each element, the batch form to the array; the
\* functions keep no state, so one application per behaviour covers them
Interpolate ==
    /\ op.name = "init"
    /\ \E soc \in InterpSocs, stride \in InterpStrides :
          LET soc_percent == Draws(soc, stride)
          IN op' = [name   |-> "interpolate",
                    pre    |-> soc_percent,
                    scalar |-> [i \in 1..Len(soc_percent) |->
                                  interpolate_voltage_from_soc(SOC_VOLTAGE_CURVE,
                                                               soc_percent[i])],
                    batch  |-> interpolate_voltage_from_soc_vectorized(soc_percent),
                    n      |-> 1]
    /\ UNCHANGED <<cfg, site, pack, group, pc, steps_run, yielded>>

NextInterp == Interpolate

SpecInterp == InitInterp /\ [][NextInterp]_vars

(***************************************************************************)
(* Properties                                                              *)
(***************************************************************************)
Stepped == op.name = "run_time_step"
Updated == op.name = "update_state"

\* C1: the runner yields after every run_time_step, no snapshot before the
\* last yielded one has test_state DONE, and once a DONE snapshot has been
\* yielded the generator cannot run another step
C1_RunnerStopsAtDone ==
    /\ [](/\ Len(yielded) = steps_run
          /\ op.n = steps_run
          /\ \A i \in 1..(Len(yielded) - 1) : yielded[i] # "DONE"
          /\ (pc = "yielded" => yielded[Len(yielded)] = site.test_state))
    /\ [][pc = "yielded" /\ site.test_state = "DONE"
            => pc' = "stopped" /\ UNCHANGED <<site, steps_run, yielded>>]_vars

\* a run without step budget that ended on its first DONE snapshot after
\* several steps
C1_Witness ==
    /\ pc = "stopped"
    /\ cfg.max_steps = {}
    /\ Len(yielded) >= 3
    /\ yielded[Len(yielded)] = "DONE"

\* C2: with max_steps supplied, at most max_steps run_time_step calls and
\* at most max_steps yields happen, for every max_steps >= 0
C2_StepBudget ==
    \A m \in cfg.max_steps : steps_run <= m /\ Len(yielded) <= m /\ op.n <= m

PhaseChain == <<"IDLE", "INIT", "RAMP_CHARGE", "CONST_CHARGE", "TAPER_TO_REST",
                "HEAT_SOAK", "RAMP_DISCHARGE", "CONST_DISCHARGE",
                "TAPER_TO_FINISH", "DONE">>

PhaseIndex(st) == CHOOSE i \in 1..Len(PhaseChain) : PhaseChain[i] = st

\* C3: in built-in mode every run_time_step keeps test_state or moves it to
\* the immediate successor in the phase chain
C3_BuiltinPhaseOrder ==
    (Stepped /\ ~op.pre.sequence_enabled) =>
        /\ \E i \in 1..Len(PhaseChain) : PhaseChain[i] = site.test_state
        /\ \/ site.test_state = op.pre.test_state
           \/ PhaseIndex(site.test_state) = PhaseIndex(op.pre.test_state) + 1

\* a built-in run that started in IDLE and has just entered DONE from
\* TAPER_TO_FINISH
C3_Witness ==
    /\ Stepped
    /\ ~site.sequence_enabled
    /\ yielded[1] = "INIT"
    /\ op.pre.test_state = "TAPER_TO_FINISH"
    /\ site.test_state = "DONE"

\* the low-side and high-side fault of the selected interlock, on a group
LowFault(g, by_voltage) ==
    IF by_voltage THEN AnyContainer(g, LowVoltageFault) ELSE AnyContainer(g, LowSocFault)
HighFault(g, by_voltage) ==
    IF by_voltage THEN AnyContainer(g, HighVoltageFault) ELSE AnyContainer(g, HighSocFault)

\* C4 as stated: a group with a container at or below the low cutoff,
\* commanded positive power, ends update_state with last_applied_power_mw = 0
\* and last_commanded_power_mw equal to the input
C4_WeakLinkPositivePower ==
    (Updated /\ op.power > 0 /\ LowFault(op.pre, cfg.WEAK_LINK_CUTOFF_BY_VOLTAGE)) =>
        /\ group.last_applied_power_mw = 0
        /\ group.last_commanded_power_mw = op.power

\* C4 as amended: the same with negative power, the direction the program
\* treats as discharge
C4_WeakLinkNegativePower ==
    (Updated /\ op.power < 0 /\ LowFault(op.pre, cfg.WEAK_LINK_CUTOFF_BY_VOLTAGE)) =>
        /\ group.last_applied_power_mw = 0
        /\ group.last_commanded_power_mw = op.power

\* a group holding a container with every cell at or below the low cutoff
\* voltage was commanded negative power and applied none
C4_Witness ==
    /\ Updated
    /\ op.power < 0
    /\ cfg.WEAK_LINK_CUTOFF_BY_VOLTAGE
    /\ \E i \in 1..Len(op.pre.containers) :
          get_max_cell_voltage(op.pre.containers[i]) <= L2_CUTOFF_LOW_VOLTAGE
    /\ group.last_applied_power_mw = 0
    /\ group.last_commanded_power_mw = op.power

\* the direction in which the pack integration moves soc under group power
\* power_mw, taken from DeltaSoc at a nominal cell-voltage sum
SocDirection(power_mw) == Sign(DeltaSoc(power_mw * 1000, 325000, 3600))

\* C5: a group never applies nonzero soc-lowering power in a step that starts
\* with a low-side fault of the selected interlock, and never nonzero
\* soc-raising power in a step that starts with a high-side fault
C5_InterlockSafety ==
    (Updated /\ Len(op.pre.containers) > 0) =>
        /\ LowFault(op.pre, cfg.WEAK_LINK_CUTOFF_BY_VOLTAGE) =>
              ~(group.last_applied_power_mw # 0
                /\ SocDirection(group.last_applied_power_mw) < 0)
        /\ HighFault(op.pre, cfg.WEAK_LINK_CUTOFF_BY_VOLTAGE) =>
              ~(group.last_applied_power_mw # 0
                /\ SocDirection(group.last_applied_power_mw) > 0)

\* a group with a cell at or above the high cutoff voltage was commanded
\* soc-raising power and applied none
C5_Witness ==
    /\ Updated
    /\ cfg.WEAK_LINK_CUTOFF_BY_VOLTAGE
    /\ AnyContainer(op.pre, HighVoltageFault)
    /\ SocDirection(op.power) > 0
    /\ group.last_applied_power_mw = 0

\* C6: in a site step every non-empty group is updated with exactly
\* target / number of groups and evolves from its own state alone, whether
\* or not another group's interlock tripped
C6_InterlockIsolation ==
    Stepped =>
        \A g \in 1..Len(site.inverter_groups) :
            LET n == Len(site.inverter_groups)
                share == Div(site.current_site_power_target_mw, n)
                before == op.pre.inverter_groups[g]
                now == site.inverter_groups[g]
                tripped == IF share > 0
                           THEN HighFault(before, cfg.WEAK_LINK_CUTOFF_BY_VOLTAGE)
                           ELSE IF share < 0
                           THEN LowFault(before, cfg.WEAK_LINK_CUTOFF_BY_VOLTAGE)
                           ELSE FALSE
                applied == IF tripped THEN 0 ELSE share
            IN Len(before.containers) > 0 =>
                  /\ now.last_commanded_power_mw = share
                  /\ now.last_applied_power_mw = applied
                  /\ \A i \in 1..Len(before.containers) :
                        now.containers[i] =
                            BatteryContainer_update_state(before.containers[i],
                                Div(applied * 1000, Len(before.containers)), op.dt)

\* a two-group site in which one group's interlock tripped while the other
\* group applied its full nonzero share
C6_Witness ==
    /\ Stepped
    /\ Len(site.inverter_groups) = 2
    /\ \E g \in 1..2, h \in 1..2 :
          /\ g # h
          /\ site.inverter_groups[g].last_commanded_power_mw # 0
          /\ site.inverter_groups[g].last_applied_power_mw = 0
          /\ site.inverter_groups[h].last_applied_power_mw # 0
          /\ site.inverter_groups[h].last_applied_power_mw =
                 Div(site.current_site_power_target_mw, 2)

\* C7: after update_state on a non-empty group the commanded power is the
\* input, the applied power is 0 or the input, they differ only when the
\* interlock condition held at the start, and with applied power 0 every
\* container was updated with 0 W
C7_CommandedVersusApplied ==
    (Updated /\ Len(op.pre.containers) > 0) =>
        /\ group.last_commanded_power_mw = op.power
        /\ group.last_applied_power_mw \in {0, op.power}
        /\ group.last_applied_power_mw # group.last_commanded_power_mw =>
              \/ op.power > 0 /\ HighFault(op.pre, cfg.WEAK_LINK_CUTOFF_BY_VOLTAGE)
              \/ op.power < 0 /\ LowFault(op.pre, cfg.WEAK_LINK_CUTOFF_BY_VOLTAGE)
        /\ group.last_applied_power_mw = 0 =>
              \A i \in 1..Len(op.pre.containers) :
                  group.containers[i] =
                      BatteryContainer_update_state(op.pre.containers[i], 0, op.dt)

\* a two-container group under the soc-based interlock whose commanded and
\* applied power differ
C7_Witness ==
    /\ Updated
    /\ ~cfg.WEAK_LINK_CUTOFF_BY_VOLTAGE
    /\ Len(group.containers) = 2
    /\ group.last_commanded_power_mw # 0
    /\ group.last_applied_power_mw = 0

InSocRange(soc) == \A i \in 1..Len(soc) : SOC_MIN <= soc[i] /\ soc[i] <= SOC_MAX

Quiescent(p) ==
    /\ SeqSum(p.cell_soc) > BALANCING_BOTTOM_SOC_END * Len(p.cell_soc)
    /\ SeqSum(p.cell_soc) < BALANCING_TOP_SOC_START * Len(p.cell_soc)
    /\ \A i \in 1..Len(p.cell_soc) :
          LET v == interpolate_voltage_from_soc(SOC_VOLTAGE_CURVE, p.cell_soc[i])
          IN v > L2_CALIBRATE_LOW_VOLTAGE /\ v < L2_CALIBRATE_HIGH_VOLTAGE

\* C9: a pack update with 0 W, balancing inactive and no cell voltage in a
\* calibration band, leaves every cell soc and the cached average unchanged
C9_ZeroPowerInvariance ==
    (Updated /\ op.power = 0 /\ Quiescent(op.pre)) =>
        /\ pack.cell_soc = op.pre.cell_soc
        /\ pack.average_soc = op.pre.average_soc

\* a quiescent pack with unequal cells was updated with 0 W for an hour
C9_Witness ==
    /\ Updated
    /\ op.power = 0
    /\ op.dt = 3600
    /\ Quiescent(op.pre)
    /\ \E i, j \in 1..Len(op.pre.cell_soc) : op.pre.cell_soc[i] # op.pre.cell_soc[j]

(***************************************************************************)
(* Sequence mode                                                           *)
(***************************************************************************)
\* the last call was a run_time_step interpreting a step descriptor
SequenceStepped ==
    /\ Stepped
    /\ op.pre.sequence_enabled
    /\ op.pre.seq_index < Len(op.pre.sequence)

\* the descriptor the last call interpreted, and the step-elapsed time it read
LastStep == op.pre.sequence[op.pre.seq_index + 1]
LastElapsed == op.pre.seq_elapsed_s

WellFormed(step) == Malformed(step) = {}

HasTaper(step) ==
    /\ "taper_settings" \in DOMAIN step
    /\ "end_power_mw" \in DOMAIN step.taper_settings
    /\ StepDuration(step) > 0

\* (1 - f) * base + f * E with f = min(1, max(0, e / D))
LinearTaper(base, E, e, D) ==
    LET fe == Min2(D, Max2(0, e)) IN Div((D - fe) * base + fe * E, D)

\* C11: in sequence mode an idle step commands 0 and a real step with
\* real_power_mw = P commands -P; with a taper to E over D > 0 the command at
\* step-elapsed time e is (1 - f) * base + f * E, f = min(1, max(0, e / D));
\* for P = +10 MW, E = 0, D = 100 s it is -5 MW at e = 50 s
C11_SequenceTargetFormula ==
    SequenceStepped /\ WellFormed(LastStep) =>
        LET cmd == LastStep.power_command
            base == IF cmd.command_type = "idle" THEN 0 ELSE -cmd.real_power_mw
            target == site.current_site_power_target_mw
        IN /\ ~HasTaper(LastStep) => target = base
           /\ HasTaper(LastStep) =>
                 target = LinearTaper(base, LastStep.taper_settings.end_power_mw,
                                      LastElapsed, StepDuration(LastStep))
           /\ ( /\ cmd.command_type = "real" /\ cmd.real_power_mw = 10000
                /\ HasTaper(LastStep) /\ LastStep.taper_settings.end_power_mw = 0
                /\ StepDuration(LastStep) = 100 /\ LastElapsed = 50
                => target = -5000 )

\* the 100 s taper from -10 MW to 0 read at elapsed 50 s
C11_Witness ==
    /\ SequenceStepped
    /\ StepName(LastStep) = "Discharge"
    /\ StepDuration(LastStep) = 100
    /\ LastElapsed = 50
    /\ site.current_site_power_target_mw = -5000

\* the last call moved the cursor off the step it interpreted
CursorAdvanced == SequenceStepped /\ site.seq_index = op.pre.seq_index + 1

\* C12: a tapered step of duration D commands its end_power_mw in some call
\* attributed to it before the next step is commanded: when the cursor leaves
\* the step, the call that left it, or an earlier call of the step (at elapsed
\* 0, dt, 2 dt, ...), commanded the end power
C12_TaperReachesEndPower ==
    CursorAdvanced /\ WellFormed(LastStep) /\ HasTaper(LastStep) =>
        LET cmd == LastStep.power_command
            base == IF cmd.command_type = "idle" THEN 0 ELSE -cmd.real_power_mw
            E == LastStep.taper_settings.end_power_mw
        IN \/ site.current_site_power_target_mw = E
           \/ \E k \in 0..(LastElapsed \div op.dt) :
                 LinearTaper(base, E, k * op.dt, StepDuration(LastStep)) = E

(***************************************************************************)
(* Built-in cycle, end to end                                              *)
(***************************************************************************)
\* a site of one group with one container, built under the defaults of
\* config.py (with the shipped test_sequence, or with the sequence switched
\* off), started in IDLE and stepped with dt = 1 s
DefaultSingleContainerRun ==
    /\ Len(site.inverter_groups) = 1
    /\ Len(site.inverter_groups[1].containers) = 1
    /\ cfg.time_step_s = 1
    /\ cfg.SITE_TARGET_POWER_MW = SITE_TARGET_POWER_MW
    /\ cfg.RAMP_DURATION_SECONDS = RAMP_DURATION_SECONDS
    /\ cfg.WEAK_LINK_CUTOFF_BY_VOLTAGE
    /\ cfg.test_sequence \in {<<>>, DefaultTestSequence}
    /\ Len(yielded) >= 1
    /\ yielded[1] \in {"INIT", "Charge"}

\* C13: such a site has target SITE_TARGET_POWER_MW at step number
\* RAMP_DURATION_SECONDS, and every value commanded inside RAMP_CHARGE is
\* elapsed / RAMP_DURATION_SECONDS * SITE_TARGET_POWER_MW for the phase time
\* elapsed at the call
C13_EndToEndRamp ==
    DefaultSingleContainerRun =>
        /\ steps_run = RAMP_DURATION_SECONDS =>
              site.current_site_power_target_mw = SITE_TARGET_POWER_MW
        /\ Stepped /\ op.pre.test_state = "RAMP_CHARGE" /\ site.test_state = "RAMP_CHARGE" =>
              site.current_site_power_target_mw =
                  Div(op.pre.state_time_s * SITE_TARGET_POWER_MW, RAMP_DURATION_SECONDS)

(***************************************************************************)
(* Mode selection                                                          *)
(***************************************************************************)
\* C14: sequence mode is on exactly when a non-empty step list is configured
\* at construction and the flag never changes; a run_time_step in sequence
\* mode leaves test_state, state_time_s and the target as the interpreter
\* alone sets them (no built-in transition, no state_time_s increment), and a
\* run_time_step in built-in mode leaves the cursor untouched
C14_ModeFixedAndExclusive ==
    /\ [](site.sequence_enabled <=> Len(cfg.test_sequence) > 0)
    /\ [][site'.sequence_enabled = site.sequence_enabled]_vars
    /\ [](Stepped /\ op.pre.sequence_enabled =>
            IF op.pre.seq_index < Len(op.pre.sequence)
            THEN /\ site.test_state = StepName(LastStep)
                 /\ site.state_time_s = LastElapsed
            ELSE /\ site.test_state = "DONE"
                 /\ site.current_site_power_target_mw = 0
                 /\ site.state_time_s = op.pre.state_time_s)
    /\ [](Stepped /\ ~op.pre.sequence_enabled =>
            /\ site.seq_index = op.pre.seq_index
            /\ site.seq_elapsed_s = op.pre.seq_elapsed_s
            /\ site.sequence = op.pre.sequence)

\* a site in sequence mode, with containers the built-in thresholds could
\* read, several steps into its list
C14_Witness ==
    /\ SequenceStepped
    /\ steps_run >= 2
    /\ SiteContainers(site) # {}

(***************************************************************************)
(* Sequence cursor                                                         *)
(***************************************************************************)
\* D_i: the first present of duration_seconds, duration_minutes, duration_hours
ClaimedDuration(step) ==
    IF "duration_seconds" \in DOMAIN step THEN step.duration_seconds
    ELSE IF "duration_minutes" \in DOMAIN step THEN 60 * step.duration_minutes
    ELSE IF "duration_hours" \in DOMAIN step THEN 3600 * step.duration_hours
    ELSE 0

\* max(1, ceil(D_i / dt))
ClaimedCalls(step, dt) == Max2(1, (ClaimedDuration(step) + dt - 1) \div dt)

\* the calls the steps 1..i of the list take together
RECURSIVE CallsThrough(_, _, _)
CallsThrough(seq, i, dt) ==
    IF i = 0 THEN 0 ELSE CallsThrough(seq, i - 1, dt) + ClaimedCalls(seq[i], dt)

\* the steps of the list that are over after n calls
StepsOver(seq, n, dt) ==
    Cardinality({i \in 1..Len(seq) : CallsThrough(seq, i, dt) <= n})

C16_ExhaustedMeansDone ==
    Stepped /\ site.sequence_enabled /\ site.seq_index = Len(site.sequence) =>
        /\ site.test_state = "DONE"
        /\ site.current_site_power_target_mw = 0

\* C16 amended: a run_time_step that starts with the cursor past the last
\* step ends with test_state DONE and target 0, and the cursor stays there
C16_ExhaustedThenDone ==
    Stepped /\ op.pre.sequence_enabled /\ op.pre.seq_index >= Len(op.pre.sequence) =>
        /\ site.test_state = "DONE"
        /\ site.current_site_power_target_mw = 0
        /\ site.seq_index = op.pre.seq_index

\* the call after the one that finished the last step of a list, whose last
\* step had a non-zero target
C16_Witness ==
    /\ Stepped
    /\ op.pre.sequence_enabled
    /\ op.pre.seq_index = Len(op.pre.sequence)
    /\ op.pre.test_state # "DONE"
    /\ op.pre.current_site_power_target_mw # 0
    /\ site.test_state = "DONE"

(***************************************************************************)
(* Malformed sequence configuration                                        *)
(***************************************************************************)
\* the configured list holds a descriptor that is not a well-formed mapping
MalformedSequenceConfigured ==
    \E i \in 1..Len(cfg.test_sequence) : ~WellFormed(cfg.test_sequence[i])

\* C17: a site built while the configured test_sequence is malformed never
\* raises, at construction or in a later run_time_step; the malformed list is
\* replaced by an empty sequence and the run uses the built-in cycle
C17_MalformedSequenceFailSoft ==
    MalformedSequenceConfigured =>
        /\ pc # "raised"
        /\ ~site.sequence_enabled
        /\ site.sequence = <<>>

(***************************************************************************)
(* Stored cell voltage, calibration, sign convention                       *)
(***************************************************************************)
\* C18: at construction and after every pack update each cell's stored
\* voltage is the curve voltage of that cell's stored soc, also when balancing
\* or calibration changed the soc in that update
C18_VoltageDerivedFromSoc ==
    \A i \in 1..Len(pack.cell_soc) :
        pack.cell_voltage[i] =
            interpolate_voltage_from_soc(SOC_VOLTAGE_CURVE, pack.cell_soc[i])

\* the soc array of the last pack update after the integration, and after the
\* balancing that follows it: the array the calibration received
LastIntegrated ==
    IntegrateSoc(op.pre.cell_soc,
        DeltaSoc(op.power,
                 SeqSum(interpolate_voltage_from_soc_vectorized(op.pre.cell_soc)),
                 op.dt))
LastBalanced == BalanceSoc(LastIntegrated, op.dt)
LastBalancedVoltage ==
    BalanceVoltage(LastIntegrated,
                   interpolate_voltage_from_soc_vectorized(LastIntegrated), op.dt)

\* C19: the calibration of a pack update is a floor on the low voltage bands
\* (MIN_SAFE_SOC at or under cutoff-low, 6.0 up to calibrate-low), a ceiling
\* on the high bands (100 at or over cutoff-high, 99.2 from calibrate-high),
\* changes no cell outside the bands, and never raises a cell in an update
\* whose current lowered that cell's soc nor lowers one whose current raised it
C19_OneDirectionalCalibration ==
    Updated =>
        \A i \in 1..Len(pack.cell_soc) :
            LET before == LastBalanced[i]
                after == pack.cell_soc[i]
                v == LastBalancedVoltage[i]
            IN /\ v <= L2_CUTOFF_LOW_VOLTAGE => after = Max2(before, MIN_SAFE_SOC)
               /\ v > L2_CUTOFF_LOW_VOLTAGE /\ v <= L2_CALIBRATE_LOW_VOLTAGE =>
                     after = Max2(before, CALIBRATE_LOW_SOC)
               /\ v >= L2_CUTOFF_HIGH_VOLTAGE => after = Min2(before, SOC_MAX)
               /\ v < L2_CUTOFF_HIGH_VOLTAGE /\ v >= L2_CALIBRATE_HIGH_VOLTAGE =>
                     after = Min2(before, CALIBRATE_HIGH_SOC)
               /\ v > L2_CALIBRATE_LOW_VOLTAGE /\ v < L2_CALIBRATE_HIGH_VOLTAGE =>
                     after = before
               /\ LastIntegrated[i] < op.pre.cell_soc[i] => after <= before
               /\ LastIntegrated[i] > op.pre.cell_soc[i] => after >= before

\* the packs of the group before its last update
LastPacks ==
    UNION { UNION { { op.pre.containers[c].racks[r].packs[k] :
                        k \in 1..Len(op.pre.containers[c].racks[r].packs) } :
                    r \in 1..Len(op.pre.containers[c].racks) } :
            c \in 1..Len(op.pre.containers) }

\* the power in W a pack received in the last group update (every container
\* holds RacksPerContainer racks of PacksPerRack packs)
LastPackPowerW ==
    Div(Div(PowerPerContainerW(op.pre, group.last_applied_power_mw),
            RacksPerContainer), PacksPerRack)

\* the cell soc of pack p after the current integration of the last update
PackIntegrated(p) ==
    IntegrateSoc(p.cell_soc,
        DeltaSoc(LastPackPowerW,
                 SeqSum(interpolate_voltage_from_soc_vectorized(p.cell_soc)),
                 op.dt))

NoCellRaised(p) == \A i \in 1..Len(p.cell_soc) : PackIntegrated(p)[i] <= p.cell_soc[i]
NoCellLowered(p) == \A i \in 1..Len(p.cell_soc) : PackIntegrated(p)[i] >= p.cell_soc[i]

\* C20 as stated: positive power is discharge and negative power is charge
\* at every level: the integration of a pack update with power_W > 0 raises
\* no cell's soc and with power_W < 0 lowers none, and the group applies the
\* low-side check to power_mw > 0 and the high-side check to power_mw < 0
C20_PositiveIsDischarge ==
    (Updated /\ Len(op.pre.containers) > 0) =>
        /\ LastPackPowerW > 0 => \A p \in LastPacks : NoCellRaised(p)
        /\ LastPackPowerW < 0 => \A p \in LastPacks : NoCellLowered(p)
        /\ op.power > 0 =>
              (group.last_applied_power_mw = 0
                  <=> LowFault(op.pre, cfg.WEAK_LINK_CUTOFF_BY_VOLTAGE))
        /\ op.power < 0 =>
              (group.last_applied_power_mw = 0
                  <=> HighFault(op.pre, cfg.WEAK_LINK_CUTOFF_BY_VOLTAGE))

\* C20 amended: positive power is charge and negative power is discharge at
\* every level: the integration with power_W > 0 lowers no cell's soc and
\* with power_W < 0 raises none, and the group applies the high-side check to
\* power_mw > 0 and the low-side check to power_mw < 0
C20_PositiveIsCharge ==
    (Updated /\ Len(op.pre.containers) > 0) =>
        /\ LastPackPowerW > 0 => \A p \in LastPacks : NoCellLowered(p)
        /\ LastPackPowerW < 0 => \A p \in LastPacks : NoCellRaised(p)
        /\ op.power > 0 =>
              (group.last_applied_power_mw = 0
                  <=> HighFault(op.pre, cfg.WEAK_LINK_CUTOFF_BY_VOLTAGE))
        /\ op.power < 0 =>
              (group.last_applied_power_mw = 0
                  <=> LowFault(op.pre, cfg.WEAK_LINK_CUTOFF_BY_VOLTAGE))

\* positive power passed the interlock of a group that starts with a low-side
\* fault, and the integration raised a cell of one of its packs
C20_Witness ==
    /\ Updated
    /\ op.power > 0
    /\ LowFault(op.pre, cfg.WEAK_LINK_CUTOFF_BY_VOLTAGE)
    /\ LastPackPowerW > 0
    /\ \E p \in LastPacks : \E i \in 1..Len(p.cell_soc) :
          PackIntegrated(p)[i] > p.cell_soc[i]

(***************************************************************************)
(* Interpolator                                                            *)
(***************************************************************************)
Interpolated == op.name = "interpolate"

\* the curve holds the control point (soc, v)
IsControlPoint(soc, v) ==
    \E k \in 1..Len(SOC_VOLTAGE_CURVE) : SOC_VOLTAGE_CURVE[k] = <<soc, v>>

ControlSocs == { SOC_VOLTAGE_CURVE[k][1] : k \in 1..Len(SOC_VOLTAGE_CURVE) }

C22_EqualSplitEveryGroup ==
    Stepped =>
        /\ site.current_time_s = op.pre.current_time_s + op.dt
        /\ \A g \in 1..Len(site.inverter_groups) :
              site.inverter_groups[g].last_commanded_power_mw =
                  Div(site.current_site_power_target_mw, Len(site.inverter_groups))

\* C22 amended: the same for every group that holds a container; a group
\* without containers counts in the divisor but keeps its
\* last_commanded_power_mw and last_applied_power_mw
C22_EqualSplitNonEmptyGroups ==
    Stepped =>
        /\ site.current_time_s = op.pre.current_time_s + op.dt
        /\ \A g \in 1..Len(site.inverter_groups) :
              IF Len(op.pre.inverter_groups[g].containers) > 0
              THEN site.inverter_groups[g].last_commanded_power_mw =
                     Div(site.current_site_power_target_mw, Len(site.inverter_groups))
              ELSE site.inverter_groups[g] = op.pre.inverter_groups[g]

\* a two-group site, one group without containers, stepped under a non-zero
\* target: the other group was commanded half of it
C22_Witness ==
    /\ Stepped
    /\ Len(site.inverter_groups) = 2
    /\ site.inverter_groups[2].containers = <<>>
    /\ site.current_site_power_target_mw >= 2
    /\ 2 * site.inverter_groups[1].last_commanded_power_mw
          = site.current_site_power_target_mw
    /\ site.current_time_s = op.pre.current_time_s + op.dt

(***************************************************************************)
(* Built-in ramps and tapers                                               *)
(***************************************************************************)
BuiltinMode == ~site.sequence_enabled
ChargePhases == {"RAMP_CHARGE", "CONST_CHARGE", "TAPER_TO_REST"}
DischargePhases == {"RAMP_DISCHARGE", "CONST_DISCHARGE", "TAPER_TO_FINISH"}
RampPhases == {"RAMP_CHARGE", "TAPER_TO_REST", "RAMP_DISCHARGE", "TAPER_TO_FINISH"}

\* the last call found the site in a ramp or taper phase and left it there
RampedWithin(phase) ==
    /\ Stepped
    /\ BuiltinMode
    /\ op.pre.test_state = phase
    /\ site.test_state = phase

\* numerator and denominator of state_time_s / duration clamped to [0, 1]
ElapsedDen(dur) == Max2(1, dur)
ElapsedNum(t, dur) == Max2(0, Min2(t, ElapsedDen(dur)))

\* SITE_TARGET_POWER_MW scaled by the clamped elapsed fraction
ScaledUp(t, dur) ==
    Div(cfg.SITE_TARGET_POWER_MW * ElapsedNum(t, dur), ElapsedDen(dur))
\* SITE_TARGET_POWER_MW scaled by one minus the clamped elapsed fraction
ScaledDown(t, dur) ==
    Div(cfg.SITE_TARGET_POWER_MW * (ElapsedDen(dur) - ElapsedNum(t, dur)),
        ElapsedDen(dur))

\* C23: in built-in mode the target never exceeds SITE_TARGET_POWER_MW in
\* magnitude, is >= 0 in the charge phases and <= 0 in the discharge phases;
\* a call that stays inside a ramp or taper phase commands
\* SITE_TARGET_POWER_MW scaled by the clamped fraction of the phase time the
\* call started with, and never moves the target against the direction of
\* the phase
C23_RampsLinearAndClamped ==
    BuiltinMode =>
        LET target == site.current_site_power_target_mw
            before == op.pre.current_site_power_target_mw
            t == op.pre.state_time_s
        IN /\ Abs(target) <= cfg.SITE_TARGET_POWER_MW
           /\ site.test_state \in ChargePhases => target >= 0
           /\ site.test_state \in DischargePhases => target <= 0
           /\ RampedWithin("RAMP_CHARGE") =>
                  /\ target = ScaledUp(t, cfg.RAMP_DURATION_SECONDS)
                  /\ target >= before
           /\ RampedWithin("TAPER_TO_REST") =>
                  /\ target = ScaledDown(t, CHARGE_TAPER_DURATION_SECONDS)
                  /\ target <= before
           /\ RampedWithin("RAMP_DISCHARGE") =>
                  /\ target = -ScaledUp(t, cfg.RAMP_DURATION_SECONDS)
                  /\ target <= before
           /\ RampedWithin("TAPER_TO_FINISH") =>
                  /\ target = -ScaledDown(t, DISCHARGE_TAPER_DURATION_SECONDS)
                  /\ target >= before

\* a taper call in the middle of TAPER_TO_FINISH: the target has moved
\* towards 0 and is strictly between -SITE_TARGET_POWER_MW and 0
C23_Witness ==
    /\ RampedWithin("TAPER_TO_FINISH")
    /\ op.pre.state_time_s > 0
    /\ site.current_site_power_target_mw > op.pre.current_site_power_target_mw
    /\ site.current_site_power_target_mw < 0
    /\ site.current_site_power_target_mw > -cfg.SITE_TARGET_POWER_MW

(***************************************************************************)
(* DONE                                                                    *)
(***************************************************************************)
\* the sequence cursor has moved past the last step
Exhausted(s) == s.sequence_enabled /\ s.seq_index >= Len(s.sequence)

\* the last call found the site in DONE, in built-in mode or after the
\* sequence was exhausted
SteppedFromDone ==
    /\ Stepped
    /\ op.pre.test_state = "DONE"
    /\ ~op.pre.sequence_enabled \/ Exhausted(op.pre)

\* C24: a run_time_step that finds the site in DONE, in built-in mode or
\* after the sequence was exhausted, leaves test_state DONE and the target 0,
\* and every group that holds a container is commanded and applied 0
C24_DoneIsTerminal ==
    SteppedFromDone =>
        /\ site.test_state = "DONE"
        /\ site.current_site_power_target_mw = 0
        /\ \A g \in 1..Len(site.inverter_groups) :
              Len(site.inverter_groups[g].containers) > 0 =>
                  /\ site.inverter_groups[g].last_commanded_power_mw = 0
                  /\ site.inverter_groups[g].last_applied_power_mw = 0

\* a built-in cycle that ran into DONE from an earlier phase and was stepped
\* again, on a site with a group that holds a container
C24_Witness ==
    /\ SteppedFromDone
    /\ BuiltinMode
    /\ yielded[1] # "DONE"
    /\ \E g \in 1..Len(site.inverter_groups) :
          Len(site.inverter_groups[g].containers) > 0

(***************************************************************************)
(* Exit of the constant phases                                             *)
(***************************************************************************)
\* the last call found the built-in cycle in the given phase
SteppedFrom(phase) ==
    /\ Stepped
    /\ BuiltinMode
    /\ op.pre.test_state = phase

\* C26: a call that finds the built-in cycle in CONST_CHARGE commands
\* +SITE_TARGET_POWER_MW and moves to TAPER_TO_REST exactly when some
\* container's cached soc was >= CHARGE_TAPER_SOC_THRESHOLD at the start of
\* the call, otherwise it stays in CONST_CHARGE; a call that finds it in
\* CONST_DISCHARGE commands -SITE_TARGET_POWER_MW and moves to
\* TAPER_TO_FINISH exactly when some container's cached soc was
\* <= DISCHARGE_TAPER_SOC_THRESHOLD, otherwise it stays in CONST_DISCHARGE
C26_ConstantPhaseExit ==
    /\ SteppedFrom("CONST_CHARGE") =>
          /\ site.current_site_power_target_mw = cfg.SITE_TARGET_POWER_MW
          /\ site.test_state =
                IF \E c \in SiteContainers(op.pre) :
                      c.soc >= CHARGE_TAPER_SOC_THRESHOLD
                THEN "TAPER_TO_REST" ELSE "CONST_CHARGE"
    /\ SteppedFrom("CONST_DISCHARGE") =>
          /\ site.current_site_power_target_mw = -cfg.SITE_TARGET_POWER_MW
          /\ site.test_state =
                IF \E c \in SiteContainers(op.pre) :
                      c.soc <= DISCHARGE_TAPER_SOC_THRESHOLD
                THEN "TAPER_TO_FINISH" ELSE "CONST_DISCHARGE"

\* CONST_CHARGE held for at least one call and then left, on a site where
\* another container was still below the threshold
C26_Witness ==
    /\ SteppedFrom("CONST_CHARGE")
    /\ op.pre.state_time_s > cfg.time_step_s
    /\ site.test_state = "TAPER_TO_REST"
    /\ \E c \in SiteContainers(op.pre) : c.soc < CHARGE_TAPER_SOC_THRESHOLD

(***************************************************************************)
(* Balancing                                                               *)
(***************************************************************************)
\* max cell soc minus min cell soc
Spread(soc) ==
    SetMax({soc[i] : i \in 1..Len(soc)}) - SetMin({soc[i] : i \in 1..Len(soc)})

\* the balancing block of the last pack update ran
LastBalancingTriggered ==
    /\ Updated
    /\ BALANCING_BLEED_CURRENT_A > 0
    /\ \/ SeqSum(LastIntegrated) >= BALANCING_TOP_SOC_START * Len(LastIntegrated)
       \/ SeqSum(LastIntegrated) <= BALANCING_BOTTOM_SOC_END * Len(LastIntegrated)

\* C27: when balancing triggers in a pack update, the balancing sub-step
\* lowers exactly the cells strictly above the pack mean, each by the same
\* bleed floored at 0, leaves the other cells alone, and the spread of the
\* cell soc after the sub-step is not larger than before it
C27_BalancingNarrowsSpread ==
    LastBalancingTriggered =>
        /\ \A i \in 1..Len(LastIntegrated) :
              LastBalanced[i] =
                  IF LastIntegrated[i] * Len(LastIntegrated) > SeqSum(LastIntegrated)
                  THEN Max2(0, LastIntegrated[i] - BleedDeltaSoc(op.dt))
                  ELSE LastIntegrated[i]
        /\ Spread(LastBalanced) <= Spread(LastIntegrated)

(***************************************************************************)
(* Minimum safe soc                                                        *)
(***************************************************************************)
\* pack p, and every cell of it, is at or above MIN_SAFE_SOC
PackAtOrAboveFloor(p) ==
    /\ p.average_soc >= MIN_SAFE_SOC
    /\ \A i \in 1..Len(p.cell_soc) : p.cell_soc[i] >= MIN_SAFE_SOC

\* C29: after an update of a group every cell of every pack below the group
\* is at or above MIN_SAFE_SOC, and so is every cached pack, rack and
\* container soc, whatever the commanded power, its sign and the duration
C29_MinSafeSocFloor ==
    Updated =>
        \A c \in 1..Len(group.containers) :
            /\ group.containers[c].soc >= MIN_SAFE_SOC
            /\ \A r \in 1..Len(group.containers[c].racks) :
                  /\ group.containers[c].racks[r].average_soc >= MIN_SAFE_SOC
                  /\ \A k \in 1..Len(group.containers[c].racks[r].packs) :
                        PackAtOrAboveFloor(group.containers[c].racks[r].packs[k])

\* a discharging update whose integration alone would have taken a cell from
\* above MIN_SAFE_SOC to below it
C29_Witness ==
    /\ Updated
    /\ \E p \in LastPacks :
          \E i \in 1..Len(p.cell_soc) :
              /\ p.cell_soc[i] > MIN_SAFE_SOC
              /\ PackIntegrated(p)[i] < MIN_SAFE_SOC
    /\ group.last_applied_power_mw < 0

(***************************************************************************)
(* DONE in sequence mode                                                   *)
(***************************************************************************)
\* C30: in sequence mode the site reports test_state DONE only when the
\* cursor has moved past the last step of the sequence, every step having
\* run for its duration, whatever the steps are named
C30_DoneMeansFinished ==
    (site.sequence_enabled /\ site.test_state = "DONE") => Exhausted(site)

(***************************************************************************)
(* Completion of the built-in cycle                                        *)
(***************************************************************************)
\* a built-in run that started in IDLE on a site with a non-empty group
BuiltinRunFromIdle ==
    /\ BuiltinMode
    /\ Len(yielded) > 0
    /\ yielded[1] = "INIT"
    /\ \E g \in 1..Len(site.inverter_groups) :
          Len(site.inverter_groups[g].containers) > 0

\* the last call started and ended in the same constant phase and changed no
\* group: leaving the phase depends on the cached container soc only and the
\* update of a group on the group and the commanded power only, so every
\* later call repeats this one and the phase is never left
BlockedInConstantPhase ==
    /\ Stepped
    /\ op.pre.test_state \in {"CONST_CHARGE", "CONST_DISCHARGE"}
    /\ site.test_state = op.pre.test_state
    /\ site.current_site_power_target_mw = op.pre.current_site_power_target_mw
    /\ site.inverter_groups = op.pre.inverter_groups

\* C28: a built-in run stepped from IDLE on a site with a non-empty group
\* reaches DONE; no phase is occupied forever, so no call of such a run
\* leaves the site blocked in CONST_CHARGE or CONST_DISCHARGE
C28_BuiltinCycleCompletes ==
    BuiltinRunFromIdle => ~BlockedInConstantPhase

====
